---- MODULE Spec2Model ----
(***************************************************************************)
(* Firebase ID-token verification of tabular-api: the public key cache     *)
(* (getKey / refresh under a sync.RWMutex), the production verifier        *)
(* verifyIDToken, the emulator verifier verifyEmulatorToken and the        *)
(* GET /api/me handler of newMux.                                          *)
(*                                                                         *)
(* The source is the Go program in src/implementations/main_test.go, lines *)
(* 773-1445 (the server's main.go follows the tests in that file).  The    *)
(* JWT library is golang-jwt/jwt/v4 v4.5.2: ParseUnverified decodes the    *)
(* three segments and looks the "alg" header up among the registered       *)
(* methods; ParseWithClaims checks the method against WithValidMethods,    *)
(* verifies the signature and returns at once when it is invalid, and only *)
(* then validates exp / iat / nbf of RegisteredClaims, combining their     *)
(* failures in one error.                                                  *)
(***************************************************************************)
EXTENDS Integers, Sequences, FiniteSets, TLC

VARIABLES
    cfg,        \* firebaseConfig captured by newMux: ProjectID, AuthEmulatorHost
    now,        \* time.Now(), in seconds
    keys,       \* keyCache.keys: kid -> RSA public key
    expiry,     \* keyCache.expiry (0 is the zero time.Time)
    readers,    \* keyCache.mu: the goroutines holding the read lock
    writer,     \* keyCache.mu: the goroutine holding the write lock, if any
    pc,         \* per goroutine: where it is in the handler
    hdr,        \* per goroutine: the request's Authorization header
    kid,        \* per goroutine: verifyIDToken's local kid
    pubKey,     \* per goroutine: what getKey returned (key or error)
    gk,         \* per goroutine: bookkeeping of the current getKey call
    ops,        \* per goroutine: the verifier's operations, in order
    verifier,   \* per goroutine: the verifier the handler invoked
    res,        \* per goroutine: what the verifier returned, and when
    resp,       \* per goroutine: the HTTP response written
    logs,       \* per goroutine: the slog entries written for the request
    first,      \* per goroutine: the accepted request the client repeats
    proc,       \* the process: main's position, its environment, its exit
    mw          \* loggingMiddleware: the shared counter and each request's locals

vars == <<cfg, now, keys, expiry, readers, writer, pc, hdr, kid, pubKey, gk,
          ops, verifier, res, resp, logs, first, proc, mw>>

(***************************************************************************)
(* Bounds of the model                                                     *)
(***************************************************************************)
\* The clock runs from 1 to MaxTime.
MaxTime == 3
\* A request's token differs from BaseToken in at most MaxDefects fields.
MaxDefects == 2

\* The requests that pass through loggingMiddleware in a run.
MaxRequests == 3

Workers == {"g1", "g2"}

(***************************************************************************)
(* Tokens                                                                  *)
(***************************************************************************)
GooglePrefix == "https://securetoken.google.com/"

\* expectedIssuer: the concatenation "https://securetoken.google.com/" + projectID,
\* kept as the pair (prefix, rest).
ExpectedIssuer(projectID) == <<GooglePrefix, projectID>>

\* A token as signToken builds it: RS256, kid k1, signed by K1's private key,
\* validClaims().  An optional claim is a set: empty when the claim is absent.
BaseToken ==
    [raw |-> "jwt", alg |-> "RS256", kid |-> <<"string", "k1">>, signer |-> "K1",
     sub |-> {"user-uid-abc123"}, iss |-> ExpectedIssuer("P1"), aud |-> {"P1"},
     exp |-> {MaxTime + 1}, iat |-> {0}, nbf |-> {},
     email |-> {"jane@example.com"}, name |-> {"Jane Doe"},
     picture |-> {"https://lh3.googleusercontent.com/a/photo"}]

TokenFields == DOMAIN BaseToken

\* The values each field of a request's token is drawn from.
FieldValues ==
    [raw     |-> {"jwt", "garbage", ""},
     alg     |-> {"RS256", "none", "HS256", "XS999"},
     kid     |-> {<<"absent", "">>, <<"number", "7">>, <<"string", "">>,
                  <<"string", "k1">>, <<"string", "k2">>},
     signer  |-> {"K1", "K2", "unsigned"},
     sub     |-> {{"user-uid-abc123"}, {""}, {}},
     iss     |-> {ExpectedIssuer("P1"), ExpectedIssuer("P2"),
                  <<"https://evil.example/", "P1">>},
     aud     |-> SUBSET {"P1", "P2"},
     exp     |-> {{}, {2}, {MaxTime + 1}},
     iat     |-> {{}, {0}, {3}},
     nbf     |-> {{}, {3}},
     email   |-> {{"jane@example.com"}},
     name    |-> {{"Jane Doe"}},
     picture |-> {{"https://lh3.googleusercontent.com/a/photo"}, {}}]

Defects(t) == Cardinality({f \in TokenFields : t[f] # BaseToken[f]})

Tokens ==
    {t \in [raw : FieldValues.raw, alg : FieldValues.alg, kid : FieldValues.kid,
            signer : FieldValues.signer, sub : FieldValues.sub,
            iss : FieldValues.iss, aud : FieldValues.aud, exp : FieldValues.exp,
            iat : FieldValues.iat, nbf : FieldValues.nbf,
            email : FieldValues.email, name : FieldValues.name,
            picture : FieldValues.picture] : Defects(t) <= MaxDefects}

\* The Authorization headers of a request, as scheme followed by credentials:
\* absent, Basic, the scheme in the wrong case, and "Bearer " before a token.
Headers ==
    {[scheme |-> "", cred |-> [BaseToken EXCEPT !.raw = ""]],
     [scheme |-> "Basic ", cred |-> [BaseToken EXCEPT !.raw = "garbage"]],
     [scheme |-> "bearer ", cred |-> BaseToken]}
    \cup {[scheme |-> "Bearer ", cred |-> t] : t \in Tokens}

(***************************************************************************)
(* Errors and results                                                      *)
(***************************************************************************)
NoErr == [site |-> "nil", flags |-> {}]
Err(site, flags) == [site |-> site, flags |-> flags]

\* A JSON string field of firebaseClaims / RegisteredClaims: "" when absent.
ClaimString(c) == IF c = {} THEN "" ELSE CHOOSE s \in c : TRUE

(***************************************************************************)
(* The JWT library, as the verifiers use it                                *)
(***************************************************************************)
\* jwt.GetSigningMethod: the methods the library registers that the model's
\* tokens name.
RegisteredMethods == {"RS256", "HS256", "none"}

\* Parser.ParseUnverified: the validation error flags, {} when it parses.  It
\* does not look at the parser's ValidMethods.
ParseUnverified(t) ==
    IF t.raw # "jwt" THEN {"Malformed"}
    ELSE IF t.alg \notin RegisteredMethods THEN {"Unverifiable"}
    ELSE {}

\* Mutant: any signature is taken for the key's.
RSAVerifyAnySignature(t, key) == t.signer # "unsigned"

\* SigningMethodRSA.Verify: the signature is the RS256 signature of the token's
\* own header and payload under the private key of `key`.
RSAVerify(t, key) == t.signer = key

\* Mutant: the claims are not validated (WithoutClaimsValidation).
ClaimsValidSkipped(t, at) == {}

\* RegisteredClaims.Valid at time `at`: exp, iat and nbf, each only when
\* present; the failures are combined.
ClaimsValid(t, at) ==
    {f \in {"Expired"} : \E e \in t.exp : ~(at < e)}
    \cup {f \in {"IssuedAt"} : \E i \in t.iat : ~(at >= i)}
    \cup {f \in {"NotValidYet"} : \E n \in t.nbf : ~(at >= n)}

\* jwt.ParseWithClaims(tokenString, claims, keyfunc, WithValidMethods(methods)).
ParseWithClaims(t, key, at, methods) ==
    IF ParseUnverified(t) # {} THEN ParseUnverified(t)
    ELSE IF t.alg \notin methods THEN {"SignatureInvalid"}
    ELSE IF ~RSAVerify(t, key) THEN {"SignatureInvalid"}
    ELSE ClaimsValid(t, at)

(***************************************************************************)
(* verifyIDToken and verifyEmulatorToken                                   *)
(***************************************************************************)
\* Mutant: an absent picture is copied as the literal "null".
ToUserClaimsNullPicture(t) ==
    [uid |-> ClaimString(t.sub), email |-> ClaimString(t.email),
     name |-> ClaimString(t.name),
     picture |-> IF t.picture = {} THEN "null" ELSE ClaimString(t.picture)]

\* userClaims built from the token's claims.
ToUserClaims(t) ==
    [uid |-> ClaimString(t.sub), email |-> ClaimString(t.email),
     name |-> ClaimString(t.name), picture |-> ClaimString(t.picture)]

\* Mutant: the unsigned scheme passes the algorithm check.
AlgIsRS256OrNone(t) == t.alg \in {"RS256", "none"}


AlgIsRS256(t) == t.alg = "RS256"

\* Mutant: only an absent kid counts as missing.
KidMissingOnlyAbsent(t) == t.kid[1] = "absent"

\* kid, ok := token.Header["kid"].(string); !ok || kid == ""
KidMissing(t) == t.kid[1] # "string" \/ t.kid[2] = ""

\* Mutant: only an absent subject counts as empty.
SubjectAbsent(t) == t.sub = {}


SubjectEmpty(t) == ClaimString(t.sub) = ""

\* Mutant: only the issuer's prefix is compared.
IssuerHasPrefix(t, projectID) == t.iss[1] = GooglePrefix


IssuerMatches(t, projectID) == t.iss = ExpectedIssuer(projectID)

\* Mutant: any audience at all passes.
AudienceNonEmpty(t, projectID) == t.aud # {}

\* Mutant: the audience must equal the project, alone.
AudienceEquals(t, projectID) == t.aud = {projectID}


AudienceContains(t, projectID) == \E a \in t.aud : a = projectID

\* verifyIDToken up to the call of keyCache.getKey.
VerifyHead(t) ==
    IF ParseUnverified(t) # {}
    THEN [err |-> Err("parsing token", ParseUnverified(t)),
          ops |-> <<"ParseUnverified">>]
    ELSE IF ~AlgIsRS256(t)
    THEN [err |-> Err("unexpected signing algorithm", {}),
          ops |-> <<"ParseUnverified", "alg">>]
    ELSE IF KidMissing(t)
    THEN [err |-> Err("missing kid in token header", {}),
          ops |-> <<"ParseUnverified", "alg", "kid">>]
    ELSE [err |-> NoErr, ops |-> <<"ParseUnverified", "alg", "kid">>]

\* Mutant: the audience is compared before the subject and the issuer.
VerifyTailAudienceFirst(t, key, projectID, at) ==
    LET flags == ParseWithClaims(t, key, at, {"RS256"}) IN
    IF flags # {}
    THEN [user |-> {}, err |-> Err("token verification failed", flags),
          ops |-> <<"ParseWithClaims">>]
    ELSE IF ~AudienceContains(t, projectID)
    THEN [user |-> {}, err |-> Err("invalid audience", {}),
          ops |-> <<"ParseWithClaims", "verified", "aud">>]
    ELSE IF SubjectEmpty(t)
    THEN [user |-> {}, err |-> Err("token subject (uid) is empty", {}),
          ops |-> <<"ParseWithClaims", "verified", "aud", "sub">>]
    ELSE IF ~IssuerMatches(t, projectID)
    THEN [user |-> {}, err |-> Err("invalid issuer", {}),
          ops |-> <<"ParseWithClaims", "verified", "aud", "sub", "iss">>]
    ELSE [user |-> {ToUserClaims(t)}, err |-> NoErr,
          ops |-> <<"ParseWithClaims", "verified", "aud", "sub", "iss", "copy">>]

\* verifyIDToken after keyCache.getKey returned `key`.  The branch
\* "invalid token claims" cannot be taken: ParseWithClaims returns a valid
\* token of the claims type passed in whenever it returns no error.
VerifyTail(t, key, projectID, at) ==
    LET flags == ParseWithClaims(t, key, at, {"RS256"}) IN
    IF flags # {}
    THEN [user |-> {}, err |-> Err("token verification failed", flags),
          ops |-> <<"ParseWithClaims">>]
    ELSE IF SubjectEmpty(t)
    THEN [user |-> {}, err |-> Err("token subject (uid) is empty", {}),
          ops |-> <<"ParseWithClaims", "verified", "sub">>]
    ELSE IF ~IssuerMatches(t, projectID)
    THEN [user |-> {}, err |-> Err("invalid issuer", {}),
          ops |-> <<"ParseWithClaims", "verified", "sub", "iss">>]
    ELSE IF ~AudienceContains(t, projectID)
    THEN [user |-> {}, err |-> Err("invalid audience", {}),
          ops |-> <<"ParseWithClaims", "verified", "sub", "iss", "aud">>]
    ELSE [user |-> {ToUserClaims(t)}, err |-> NoErr,
          ops |-> <<"ParseWithClaims", "verified", "sub", "iss", "aud", "copy">>]

\* Mutant: the emulator verifier compares the issuer with the project's.
VerifyEmulatorTokenChecksIssuer(t, projectID) ==
    IF ParseUnverified(t) # {}
    THEN [user |-> {}, err |-> Err("parsing emulator token", ParseUnverified(t)),
          ops |-> <<"ParseUnverified">>]
    ELSE IF SubjectEmpty(t)
    THEN [user |-> {}, err |-> Err("emulator token subject (uid) is empty", {}),
          ops |-> <<"ParseUnverified", "sub">>]
    ELSE IF ~IssuerMatches(t, projectID)
    THEN [user |-> {}, err |-> Err("invalid issuer", {}),
          ops |-> <<"ParseUnverified", "sub", "iss">>]
    ELSE [user |-> {ToUserClaims(t)}, err |-> NoErr,
          ops |-> <<"ParseUnverified", "sub", "copy">>]

\* verifyEmulatorToken: ParseUnverified with a parser built with
\* WithValidMethods and WithoutClaimsValidation, then the subject check.
VerifyEmulatorToken(t, projectID) ==
    IF ParseUnverified(t) # {}
    THEN [user |-> {}, err |-> Err("parsing emulator token", ParseUnverified(t)),
          ops |-> <<"ParseUnverified">>]
    ELSE IF SubjectEmpty(t)
    THEN [user |-> {}, err |-> Err("emulator token subject (uid) is empty", {}),
          ops |-> <<"ParseUnverified", "sub">>]
    ELSE [user |-> {ToUserClaims(t)}, err |-> NoErr,
          ops |-> <<"ParseUnverified", "sub", "copy">>]

\* The failure kinds of the design's error table, read off the error returned:
\* the place that built it and the library's validation flags.
Kinds(err) ==
    {k \in {"Malformed"} : err.site \in {"parsing token", "parsing emulator token"}
                            /\ "Malformed" \in err.flags}
    \cup {k \in {"UnsupportedAlgorithm"} :
            \/ err.site = "unexpected signing algorithm"
            \/ /\ err.site \in {"parsing token", "parsing emulator token"}
               /\ "Unverifiable" \in err.flags}
    \cup {k \in {"MissingKeyID"} : err.site = "missing kid in token header"}
    \cup {k \in {"UnknownKey"} : err.site \in {"not found in cache",
                                               "not found after refresh"}}
    \cup {k \in {"KeyUnavailable"} : err.site = "failed to refresh public keys"}
    \cup {k \in {"BadSignature"} : err.site = "token verification failed"
                                   /\ "SignatureInvalid" \in err.flags}
    \cup {k \in {"Expired"} : err.site = "token verification failed"
                              /\ "Expired" \in err.flags}
    \cup {k \in {"NotYetValid"} : err.site = "token verification failed"
                                  /\ err.flags \cap {"IssuedAt", "NotValidYet"} # {}}
    \cup {k \in {"MissingSubject"} :
            err.site \in {"token subject (uid) is empty",
                          "emulator token subject (uid) is empty"}}
    \cup {k \in {"BadIssuer"} : err.site = "invalid issuer"}
    \cup {k \in {"BadAudience"} : err.site = "invalid audience"}

(***************************************************************************)
(* JSON helpers and the response of GET /api/me                            *)
(***************************************************************************)
\* writeError(w, status, code, message)
WriteError(status, code, message) ==
    [status |-> status,
     body |-> [error |-> [code |-> code, message |-> message]]]

\* writeJSON(w, status, v)
WriteJSON(status, v) == [status |-> status, body |-> v]

Unauthenticated ==
    WriteError(401, "UNAUTHENTICATED", "Missing or invalid authentication token")

\* Mutant: the 401 names the check that failed.
RespondWithReason(result) ==
    IF result.err # NoErr THEN WriteError(401, "UNAUTHENTICATED", result.err.site)
    ELSE WriteJSON(200, CHOOSE u \in result.user : TRUE)

\* The handler's last lines: the 401 envelope when the verifier failed, the
\* user as JSON otherwise.
Respond(result) ==
    IF result.err # NoErr THEN Unauthenticated
    ELSE WriteJSON(200, CHOOSE u \in result.user : TRUE)

NoResp == [status |-> 0, body |-> [none |-> TRUE]]

(***************************************************************************)
(* Logging                                                                 *)
(***************************************************************************)
NoArgs == [a \in {} |-> ""]

\* err.Error(): the text of the place that built the error, the library's
\* flags, and the values its format string quotes, named after the Go
\* expressions they come from.
ErrorArgs(err, t) ==
    CASE err.site = "unexpected signing algorithm" -> [a \in {"token.Method.Alg()"} |-> t.alg]
      [] err.site \in {"not found in cache", "not found after refresh"} ->
            [a \in {"kid"} |-> t.kid[2]]
      [] err.site = "invalid issuer" -> [a \in {"claims.Issuer"} |-> t.iss]
      [] err.site = "invalid audience" -> [a \in {"claims.Audience"} |-> t.aud]
      [] OTHER -> NoArgs

\* Mutant: the warning carries the token it rejected.
WarnEntryWithToken(err, t) ==
    [level |-> "WARN", msg |-> "token verification failed",
     attrs |-> {"error", "token"}, error |-> err,
     args |-> [a \in {"tokenString"} |-> t]]

\* slog.Warn("token verification failed", "error", err.Error())
WarnEntry(err, t) ==
    [level |-> "WARN", msg |-> "token verification failed",
     attrs |-> {"error"}, error |-> err, args |-> ErrorArgs(err, t)]

\* loggingMiddleware's slog.Info("request", ...): of the request it quotes the
\* method and the path.
RequestEntry(status) ==
    [level |-> "INFO", msg |-> "request",
     attrs |-> {"request_id", "method", "path", "status", "latency_ms"},
     error |-> NoErr,
     args |-> [a \in {"r.Method", "r.URL.Path"} |->
                 IF a = "r.Method" THEN "GET" ELSE "/api/me"],
     status |-> status]

\* The entries of one request: the handler's warning when the verifier failed,
\* then the middleware's line once the handler has returned.
HandlerLogs(err, t, response) ==
    (IF err # NoErr THEN <<WarnEntry(err, t)>> ELSE <<>>)
    \o <<RequestEntry(response.status)>>

(***************************************************************************)
(* The certificate endpoint and refresh                                    *)
(***************************************************************************)
\* maxAge := 3600 // default 1 hour
DefaultMaxAge == 3600

Cert(pem, x509, alg, key) == [pem |-> pem, x509 |-> x509, alg |-> alg, key |-> key]
GoodCert(key) == Cert(TRUE, TRUE, "RSA", key)

CertMap1 == [k \in {"k1"} |-> GoodCert("K1")]
CertMap12 == [k \in {"k1", "k2"} |-> GoodCert(IF k = "k1" THEN "K1" ELSE "K2")]
CertMap2 == [k \in {"k2"} |-> GoodCert("K2")]

\* A response of http.Get(googleCertsURL): the transport outcome, the status,
\* whether the body is a JSON object of strings, the certificates, and the
\* Cache-Control header as its comma-separated directives.
Response(net, status, json, certs, cc) ==
    [net |-> net, status |-> status, json |-> json, certs |-> certs, cc |-> cc]

Responses ==
    {Response("error", 0, FALSE, CertMap1, <<>>),
     Response("read error", 200, FALSE, CertMap1, <<>>),
     Response("ok", 503, TRUE, CertMap1, <<"max-age=2">>),
     Response("ok", 200, FALSE, CertMap1, <<"max-age=2">>),
     Response("ok", 200, TRUE,
              [k \in {"k1", "k2"} |->
                 IF k = "k1" THEN GoodCert("K1") ELSE Cert(FALSE, FALSE, "RSA", "K2")],
              <<"max-age=2">>),
     Response("ok", 200, TRUE,
              [k \in {"k1"} |-> Cert(TRUE, FALSE, "RSA", "K1")], <<"max-age=2">>),
     Response("ok", 200, TRUE,
              [k \in {"k1", "k2"} |->
                 IF k = "k1" THEN GoodCert("K1") ELSE Cert(TRUE, TRUE, "ECDSA", "K2")],
              <<"max-age=2">>),
     Response("ok", 200, TRUE, CertMap1, <<"max-age=2">>),
     Response("ok", 200, TRUE, CertMap12, <<"public", "max-age=1", "must-revalidate">>),
     Response("ok", 200, TRUE, CertMap2, <<>>),
     Response("ok", 200, TRUE, CertMap12, <<"max-age=abc", "no-transform">>),
     Response("ok", 200, TRUE, CertMap1, <<"max-age=0">>),
     Response("ok", 200, TRUE, CertMap1, <<"max-age=-1">>)}

\* strings.HasPrefix(directive, "max-age=") and strconv.Atoi of the rest: the
\* integer, as a one-element set, or {} when there is none.  Atoi takes a sign.
MaxAgeOf(directive) ==
    CASE directive = "max-age=-1" -> {-1}
      [] directive = "max-age=0" -> {0}
      [] directive = "max-age=1" -> {1}
      [] directive = "max-age=2" -> {2}
      [] OTHER -> {}

\* Mutant: only the first directive of the header is looked at.
ParseMaxAgeFirstOnly(cc, maxAge) ==
    IF cc # <<>> /\ MaxAgeOf(Head(cc)) # {}
    THEN CHOOSE v \in MaxAgeOf(Head(cc)) : TRUE
    ELSE maxAge

\* The loop over the directives: the last max-age that parses wins.
RECURSIVE ParseMaxAge(_, _)
ParseMaxAge(cc, maxAge) ==
    IF cc = <<>> THEN maxAge
    ELSE ParseMaxAge(Tail(cc),
                     IF MaxAgeOf(Head(cc)) # {}
                     THEN CHOOSE v \in MaxAgeOf(Head(cc)) : TRUE
                     ELSE maxAge)

\* refresh's handling of a response, up to the assignment of the cache: the
\* error it returns, or the key map and max-age it installs.  The certificate
\* loop ranges over a Go map: with several bad entries the one reported is any
\* of them, and refresh fails whichever it is.
RefreshOutcome(r) ==
    IF r.net = "error" THEN [err |-> "fetching Google certs"]
    ELSE IF r.net = "read error" THEN [err |-> "reading Google certs response"]
    ELSE IF r.status # 200 THEN [err |-> "Google certs returned status"]
    ELSE IF ~r.json THEN [err |-> "parsing Google certs JSON"]
    ELSE IF \E k \in DOMAIN r.certs : ~r.certs[k].pem
    THEN [err |-> "failed to decode PEM"]
    ELSE IF \E k \in DOMAIN r.certs : ~r.certs[k].x509
    THEN [err |-> "parsing certificate"]
    ELSE IF \E k \in DOMAIN r.certs : r.certs[k].alg # "RSA"
    THEN [err |-> "key is not RSA"]
    ELSE [err |-> "nil",
          keys |-> [k \in DOMAIN r.certs |-> r.certs[k].key],
          maxAge |-> ParseMaxAge(r.cc, DefaultMaxAge)]

(***************************************************************************)
(* The key cache                                                           *)
(***************************************************************************)
NoKeys == [k \in {} |-> "K1"]

\* time.Now().Before(c.expiry)
Unexpired == now < expiry

\* key, ok := c.keys[kid], and the error of the place that misses.
Lookup(k, missSite) ==
    IF k \in DOMAIN keys THEN [key |-> {keys[k]}, err |-> NoErr]
    ELSE [key |-> {}, err |-> Err(missSite, {})]

\* Bookkeeping of one getKey call: what its first check found and saw, the
\* fetches it sent and the refreshes it completed; the callers that waited for
\* the refresh lock together with it, its turn at that lock and, when it did
\* not wait alone, the time it got it; what its second check found; of its
\* refresh the Cache-Control header received, the max-age parsed and the time
\* and expiry of the assignment; the calls of c.refresh() and the lookups
\* c.keys[kid] it made.
NoCall ==
    [found |-> "none", seen |-> NoKeys, fetches |-> 0, writes |-> 0,
     refreshes |-> 0, lookups |-> 0,
     rivals |-> {}, order |-> 0, lockedAt |-> 0, recheck |-> "none",
     cc |-> <<>>, maxAge |-> 0, at |-> 0, installed |-> 0]

NoKey == [key |-> {}, err |-> NoErr]
NoResult == [user |-> {}, err |-> NoErr, at |-> 0]
NoHeader == [scheme |-> "", cred |-> [BaseToken EXCEPT !.raw = ""]]
NoFirst == [set |-> FALSE, hdr |-> NoHeader, user |-> {}, keys |-> NoKeys, expiry |-> 0]

(***************************************************************************)
(* Initial state: keyCache = &publicKeyCache{}, no request in progress     *)
(***************************************************************************)
Configs ==
    {[ProjectID |-> "P1", AuthEmulatorHost |-> h] : h \in {"", "localhost:9099"}}

\* The environment of a process that reached ListenAndServe with the
\* configuration c: every required variable is set.
EnvOf(c) ==
    [PORT |-> "8080", FIREBASE_PROJECT_ID |-> c.ProjectID,
     FIREBASE_API_KEY |-> "K1", FIREBASE_AUTH_DOMAIN |-> "D1",
     FIREBASE_AUTH_EMULATOR_HOST |-> c.AuthEmulatorHost]

\* main is inside http.ListenAndServe: the router is built, the listener open.
Serving(c) ==
    [pc |-> "serving", env |-> EnvOf(c), code |-> 0, errors |-> <<>>,
     mux |-> TRUE, listening |-> TRUE]

\* loggingMiddleware(mux) has just returned: var counter uint64 is zero and no
\* request has entered the closure.
NoRequest == [pc |-> "idle", start |-> 0, tmp |-> 0, id |-> <<>>]
NoRequests ==
    [counter |-> 0, req |-> [w \in Workers |-> NoRequest], log |-> <<>>]

Init ==
    /\ cfg \in Configs
    /\ now = 1
    /\ keys = NoKeys
    /\ expiry = 0
    /\ readers = {}
    /\ writer = {}
    /\ pc = [w \in Workers |-> "idle"]
    /\ hdr = [w \in Workers |-> NoHeader]
    /\ kid = [w \in Workers |-> ""]
    /\ pubKey = [w \in Workers |-> NoKey]
    /\ gk = [w \in Workers |-> NoCall]
    /\ ops = [w \in Workers |-> <<>>]
    /\ verifier = [w \in Workers |-> "none"]
    /\ res = [w \in Workers |-> NoResult]
    /\ resp = [w \in Workers |-> NoResp]
    /\ logs = [w \in Workers |-> <<>>]
    /\ first = [w \in Workers |-> NoFirst]
    /\ proc = Serving(cfg)
    /\ mw = NoRequests

(***************************************************************************)
(* GET /api/me                                                             *)
(***************************************************************************)
\* authHeader == "" || !strings.HasPrefix(authHeader, "Bearer ")
HasBearer(h) == h.scheme = "Bearer "

\* Mutant: an unsigned token selects the emulator verifier.
UseEmulatorForUnsigned(c, h) == c.AuthEmulatorHost # "" \/ h.cred.alg = "none"

\* if cfg.AuthEmulatorHost != "" { verifyEmulatorToken } else { verifyIDToken }
UseEmulator(c, h) == c.AuthEmulatorHost # ""

\* The handler from its first line to the response, or to verifyIDToken's call
\* of keyCache.getKey.
Handle(w, h) ==
    /\ pc[w] = "idle"
    /\ hdr' = [hdr EXCEPT ![w] = h]
    /\ IF ~HasBearer(h)
       THEN /\ resp' = [resp EXCEPT ![w] = Unauthenticated]
            /\ logs' = [logs EXCEPT ![w] = HandlerLogs(NoErr, h.cred, Unauthenticated)]
            /\ pc' = [pc EXCEPT ![w] = "done"]
            /\ UNCHANGED <<verifier, res, ops, kid>>
       ELSE IF UseEmulator(cfg, h)
       THEN LET r == VerifyEmulatorToken(h.cred, cfg.ProjectID) IN
            /\ verifier' = [verifier EXCEPT ![w] = "verifyEmulatorToken"]
            /\ res' = [res EXCEPT ![w] = [user |-> r.user, err |-> r.err, at |-> now]]
            /\ ops' = [ops EXCEPT ![w] = r.ops]
            /\ resp' = [resp EXCEPT ![w] = Respond(r)]
            /\ logs' = [logs EXCEPT ![w] = HandlerLogs(r.err, h.cred, Respond(r))]
            /\ pc' = [pc EXCEPT ![w] = "done"]
            /\ UNCHANGED kid
       ELSE LET r == VerifyHead(h.cred) IN
            /\ verifier' = [verifier EXCEPT ![w] = "verifyIDToken"]
            /\ ops' = [ops EXCEPT ![w] = r.ops]
            /\ IF r.err # NoErr
               THEN /\ res' = [res EXCEPT ![w] = [user |-> {}, err |-> r.err, at |-> now]]
                    /\ resp' = [resp EXCEPT ![w] = Respond(r)]
                    /\ logs' = [logs EXCEPT ![w] = HandlerLogs(r.err, h.cred, Respond(r))]
                    /\ pc' = [pc EXCEPT ![w] = "done"]
                    /\ UNCHANGED kid
               ELSE /\ kid' = [kid EXCEPT ![w] = h.cred.kid[2]]
                    /\ pc' = [pc EXCEPT ![w] = "getKey"]
                    /\ UNCHANGED <<res, resp, logs>>
    /\ UNCHANGED <<cfg, now, keys, expiry, readers, writer, pubKey, gk, first,
                   proc, mw>>

\* A request arrives: any header, or the header of the accepted request the
\* client is repeating.
Request(w) ==
    /\ pc[w] = "idle"
    /\ \E h \in IF first[w].set THEN {first[w].hdr} ELSE Headers : Handle(w, h)

\* The goroutine whose c.mu.Lock() is pending: it has announced itself and
\* waits for the read locks held to be released.
WriterPending == {v \in Workers : pc[v] = "locking"}

\* Mutant: the read lock is exclusive (a sync.Mutex).
GetKeyRLockExclusive(w) ==
    /\ pc[w] = "getKey"
    /\ writer = {} /\ WriterPending = {} /\ readers = {}
    /\ readers' = readers \cup {w}
    /\ pc' = [pc EXCEPT ![w] = "read"]
    /\ UNCHANGED <<cfg, now, keys, expiry, writer, hdr, kid, pubKey, gk, ops,
                   verifier, res, resp, logs, first, proc, mw>>

\* getKey: c.mu.RLock().  sync.RWMutex grants the read lock while no goroutine
\* holds the write lock or has a Lock() pending, whoever holds read locks.
GetKeyRLock(w) ==
    /\ pc[w] = "getKey"
    /\ writer = {} /\ WriterPending = {}
    /\ readers' = readers \cup {w}
    /\ pc' = [pc EXCEPT ![w] = "read"]
    /\ UNCHANGED <<cfg, now, keys, expiry, writer, hdr, kid, pubKey, gk, ops,
                   verifier, res, resp, logs, first, proc, mw>>

\* Mutant: a kid the unexpired cache lacks sends getKey to refresh.
AfterFirstCheckRefreshOnMiss(unexpired, found) ==
    IF unexpired /\ found THEN "verify" ELSE "refresh"

\* Mutant: getKey goes to refresh whatever its first expiry check found.
AfterFirstCheckAlwaysRefresh(unexpired, found) == "refresh"

\* Where getKey goes after its first expiry check: it returns (the lookup's
\* result, hit or miss) when the cache is unexpired, and refreshes otherwise.
AfterFirstCheck(unexpired, found) == IF unexpired THEN "verify" ELSE "refresh"

\* getKey under the read lock: the expiry check, the lookup when the cache is
\* unexpired, c.mu.RUnlock().
GetKeyRead(w) ==
    /\ pc[w] = "read"
    /\ readers' = readers \ {w}
    /\ LET next == AfterFirstCheck(Unexpired, kid[w] \in DOMAIN keys)
           waiting == IF next = "refresh"
                      THEN {v \in Workers \ {w} : pc[v] \in {"refresh", "locking"}}
                      ELSE {}
       IN /\ pc' = [pc EXCEPT ![w] = next]
          /\ gk' = [v \in Workers |->
                      IF v = w
                      THEN [gk[w] EXCEPT
                              !.found = IF Unexpired THEN "unexpired" ELSE "expired",
                              !.lookups = IF Unexpired THEN @ + 1 ELSE @,
                              !.seen = keys, !.rivals = waiting]
                      ELSE IF v \in waiting
                      THEN [gk[v] EXCEPT !.rivals = @ \cup {w}]
                      ELSE gk[v]]
    /\ pubKey' = [pubKey EXCEPT ![w] =
                    IF Unexpired THEN Lookup(kid[w], "not found in cache") ELSE @]
    /\ UNCHANGED <<cfg, now, keys, expiry, writer, hdr, kid, ops, verifier, res,
                   resp, logs, first, proc, mw>>

\* Mutant: refresh fetches without a second look at the expiry.
AfterSecondCheckAlwaysFetch(unexpired) == "fetching"

\* Where refresh goes after its own expiry check, under the write lock: back to
\* getKey when another caller refreshed meanwhile, to http.Get otherwise.
AfterSecondCheck(unexpired) == IF unexpired THEN "getKey2" ELSE "fetching"

\* Mutant: refresh's Lock() does not exclude another goroutine's.
RefreshWLockNoMutex(w) ==
    /\ pc[w] = "refresh"
    /\ pc' = [pc EXCEPT ![w] = "locking"]
    /\ gk' = [gk EXCEPT ![w].refreshes = @ + 1]
    /\ UNCHANGED <<cfg, now, keys, expiry, readers, writer, hdr, kid, pubKey,
                   ops, verifier, res, resp, logs, first, proc, mw>>

\* refresh: c.mu.Lock() is called.  One goroutine at a time passes the
\* writers' mutex of sync.RWMutex; it announces itself, which holds back new
\* read locks, and waits for the read locks held.
RefreshWLock(w) ==
    /\ pc[w] = "refresh"
    /\ \A v \in Workers : pc[v] \notin {"locking", "fetching", "install"}
    /\ pc' = [pc EXCEPT ![w] = "locking"]
    /\ gk' = [gk EXCEPT ![w].refreshes = @ + 1]
    /\ UNCHANGED <<cfg, now, keys, expiry, readers, writer, hdr, kid, pubKey,
                   ops, verifier, res, resp, logs, first, proc, mw>>

\* refresh: c.mu.Lock() returns, the read locks released; the second expiry
\* check, and either the return (with the deferred Unlock) or http.Get sent,
\* the lock held.
RefreshLock(w) ==
    /\ pc[w] = "locking"
    /\ readers = {}
    /\ LET next == AfterSecondCheck(Unexpired) IN
       /\ pc' = [pc EXCEPT ![w] = next]
       /\ writer' = IF next = "fetching" THEN {w} ELSE {}
       /\ gk' = [gk EXCEPT
                   ![w].fetches = IF next = "fetching" THEN @ + 1 ELSE @,
                   ![w].recheck = IF Unexpired THEN "unexpired" ELSE "expired",
                   ![w].order = 1 + Cardinality({v \in gk[w].rivals : gk[v].order > 0}),
                   ![w].lockedAt = IF gk[w].rivals # {} THEN now ELSE 0]
    /\ UNCHANGED <<cfg, now, keys, expiry, readers, hdr, kid, pubKey, ops,
                   verifier, res, resp, logs, first, proc, mw>>

\* Mutant: after a failed fetch getKey answers from the map it has.
RefreshDoneAnswersStale(w, r) ==
    /\ pc[w] = "fetching"
    /\ LET o == RefreshOutcome(r) IN
       IF o.err # "nil"
       THEN /\ writer' = {}
            /\ pc' = [pc EXCEPT ![w] = "getKey2"]
            /\ UNCHANGED <<keys, gk, pubKey>>
       ELSE /\ keys' = o.keys
            /\ gk' = [gk EXCEPT ![w].cc = r.cc, ![w].maxAge = o.maxAge]
            /\ pc' = [pc EXCEPT ![w] = "install"]
            /\ UNCHANGED <<writer, pubKey>>
    /\ UNCHANGED <<cfg, now, expiry, readers, hdr, kid, ops, verifier, res, resp,
                   logs, first, proc, mw>>

\* Mutant: the response's keys are added to the map.
RefreshDoneMerges(w, r) ==
    /\ pc[w] = "fetching"
    /\ LET o == RefreshOutcome(r) IN
       IF o.err # "nil"
       THEN /\ writer' = {}
            /\ pubKey' = [pubKey EXCEPT ![w] =
                            [key |-> {}, err |-> Err("failed to refresh public keys", {o.err})]]
            /\ pc' = [pc EXCEPT ![w] = "verify"]
            /\ UNCHANGED <<keys, gk>>
       ELSE /\ keys' = [k \in DOMAIN keys \cup DOMAIN o.keys |->
                          IF k \in DOMAIN o.keys THEN o.keys[k] ELSE keys[k]]
            /\ gk' = [gk EXCEPT ![w].cc = r.cc, ![w].maxAge = o.maxAge]
            /\ pc' = [pc EXCEPT ![w] = "install"]
            /\ UNCHANGED <<writer, pubKey>>
    /\ UNCHANGED <<cfg, now, expiry, readers, hdr, kid, ops, verifier, res, resp,
                   logs, first, proc, mw>>

\* refresh from the response of http.Get to either its return with an error
\* (and the deferred Unlock), which getKey wraps and returns, or the
\* assignment c.keys = keys, the lock still held.
RefreshDone(w, r) ==
    /\ pc[w] = "fetching"
    /\ LET o == RefreshOutcome(r) IN
       IF o.err # "nil"
       THEN /\ writer' = {}
            /\ pubKey' = [pubKey EXCEPT ![w] =
                            [key |-> {}, err |-> Err("failed to refresh public keys", {o.err})]]
            /\ pc' = [pc EXCEPT ![w] = "verify"]
            /\ UNCHANGED <<keys, gk>>
       ELSE /\ keys' = o.keys
            /\ gk' = [gk EXCEPT ![w].cc = r.cc, ![w].maxAge = o.maxAge]
            /\ pc' = [pc EXCEPT ![w] = "install"]
            /\ UNCHANGED <<writer, pubKey>>
    /\ UNCHANGED <<cfg, now, expiry, readers, hdr, kid, ops, verifier, res, resp,
                   logs, first, proc, mw>>

RefreshFetched(w) == pc[w] = "fetching" /\ \E r \in Responses : RefreshDone(w, r)

\* Mutant: a max-age that is not positive is replaced by the default.
RefreshInstallClampsMaxAge(w) ==
    /\ pc[w] = "install"
    /\ LET m == IF gk[w].maxAge <= 0 THEN DefaultMaxAge ELSE gk[w].maxAge IN
       /\ expiry' = now + m
       /\ gk' = [gk EXCEPT ![w].writes = @ + 1, ![w].at = now,
                           ![w].installed = now + m]
    /\ writer' = {}
    /\ pc' = [pc EXCEPT ![w] = "getKey2"]
    /\ UNCHANGED <<cfg, now, keys, readers, hdr, kid, pubKey, ops, verifier, res,
                   resp, logs, first, proc, mw>>

\* refresh: c.expiry = time.Now().Add(maxAge seconds), the log line, the return
\* and the deferred Unlock.
RefreshInstall(w) ==
    /\ pc[w] = "install"
    /\ expiry' = now + gk[w].maxAge
    /\ writer' = {}
    /\ gk' = [gk EXCEPT ![w].writes = @ + 1, ![w].at = now,
                        ![w].installed = now + gk[w].maxAge]
    /\ pc' = [pc EXCEPT ![w] = "getKey2"]
    /\ UNCHANGED <<cfg, now, keys, readers, hdr, kid, pubKey, ops, verifier, res,
                   resp, logs, first, proc, mw>>

\* getKey after refresh: c.mu.RLock()
GetKeyRLock2(w) ==
    /\ pc[w] = "getKey2"
    /\ writer = {} /\ WriterPending = {}
    /\ readers' = readers \cup {w}
    /\ pc' = [pc EXCEPT ![w] = "read2"]
    /\ UNCHANGED <<cfg, now, keys, expiry, writer, hdr, kid, pubKey, gk, ops,
                   verifier, res, resp, logs, first, proc, mw>>

\* Mutant: a kid the refreshed set lacks sends getKey to refresh once more.
GetKeyRead2RetriesOnMiss(w) ==
    /\ pc[w] = "read2"
    /\ readers' = readers \ {w}
    /\ pubKey' = [pubKey EXCEPT ![w] = Lookup(kid[w], "not found after refresh")]
    /\ gk' = [gk EXCEPT ![w].seen = keys, ![w].lookups = @ + 1]
    /\ pc' = [pc EXCEPT ![w] = IF kid[w] \in DOMAIN keys \/ gk[w].refreshes > 1
                                THEN "verify" ELSE "refresh"]
    /\ UNCHANGED <<cfg, now, keys, expiry, writer, hdr, kid, ops, verifier,
                   res, resp, logs, first, proc, mw>>

\* getKey after refresh: the lookup, without a look at the expiry, and the
\* deferred RUnlock.
GetKeyRead2(w) ==
    /\ pc[w] = "read2"
    /\ readers' = readers \ {w}
    /\ pubKey' = [pubKey EXCEPT ![w] = Lookup(kid[w], "not found after refresh")]
    /\ gk' = [gk EXCEPT ![w].seen = keys, ![w].lookups = @ + 1]
    /\ pc' = [pc EXCEPT ![w] = "verify"]
    /\ UNCHANGED <<cfg, now, keys, expiry, writer, hdr, kid, ops, verifier,
                   res, resp, logs, first, proc, mw>>

\* verifyIDToken from the return of getKey to its own return, and the
\* handler's response.
VerifyRest(w) ==
    /\ pc[w] = "verify"
    /\ LET r == IF pubKey[w].err # NoErr
                THEN [user |-> {}, err |-> pubKey[w].err, ops |-> <<>>]
                ELSE VerifyTail(hdr[w].cred, CHOOSE k \in pubKey[w].key : TRUE,
                                cfg.ProjectID, now)
       IN /\ res' = [res EXCEPT ![w] = [user |-> r.user, err |-> r.err, at |-> now]]
          /\ ops' = [ops EXCEPT ![w] = @ \o <<"getKey">> \o r.ops]
          /\ resp' = [resp EXCEPT ![w] = Respond(r)]
          /\ logs' = [logs EXCEPT ![w] = HandlerLogs(r.err, hdr[w].cred, Respond(r))]
    /\ pc' = [pc EXCEPT ![w] = "done"]
    /\ UNCHANGED <<cfg, now, keys, expiry, readers, writer, hdr, kid, pubKey, gk,
                   verifier, first, proc, mw>>

\* The handler returns; the goroutine is free for the next request.
Finish(w) ==
    /\ pc[w] = "done"
    /\ pc' = [pc EXCEPT ![w] = "idle"]
    /\ hdr' = [hdr EXCEPT ![w] = NoHeader]
    /\ kid' = [kid EXCEPT ![w] = ""]
    /\ pubKey' = [pubKey EXCEPT ![w] = NoKey]
    /\ gk' = [gk EXCEPT ![w] = NoCall]
    /\ ops' = [ops EXCEPT ![w] = <<>>]
    /\ verifier' = [verifier EXCEPT ![w] = "none"]
    /\ res' = [res EXCEPT ![w] = NoResult]
    /\ resp' = [resp EXCEPT ![w] = NoResp]
    /\ logs' = [logs EXCEPT ![w] = <<>>]
    /\ first' = [first EXCEPT ![w] = NoFirst]
    /\ UNCHANGED <<cfg, now, keys, expiry, readers, writer, proc, mw>>

\* The handler returns from a request verifyIDToken accepted, and the client
\* is about to send the same request again: the header and the user returned
\* are kept for the comparison, with the cache as it is between the two
\* requests.
Repeat(w) ==
    /\ pc[w] = "done"
    /\ verifier[w] = "verifyIDToken"
    /\ res[w].user # {}
    /\ ~first[w].set
    /\ first' = [first EXCEPT ![w] =
                   [set |-> TRUE, hdr |-> hdr[w], user |-> res[w].user,
                    keys |-> keys, expiry |-> expiry]]
    /\ pc' = [pc EXCEPT ![w] = "idle"]
    /\ hdr' = [hdr EXCEPT ![w] = NoHeader]
    /\ kid' = [kid EXCEPT ![w] = ""]
    /\ pubKey' = [pubKey EXCEPT ![w] = NoKey]
    /\ gk' = [gk EXCEPT ![w] = NoCall]
    /\ ops' = [ops EXCEPT ![w] = <<>>]
    /\ verifier' = [verifier EXCEPT ![w] = "none"]
    /\ res' = [res EXCEPT ![w] = NoResult]
    /\ resp' = [resp EXCEPT ![w] = NoResp]
    /\ logs' = [logs EXCEPT ![w] = <<>>]
    /\ UNCHANGED <<cfg, now, keys, expiry, readers, writer, proc, mw>>

\* Time passes.
Tick ==
    /\ now < MaxTime
    /\ now' = now + 1
    /\ UNCHANGED <<cfg, keys, expiry, readers, writer, pc, hdr, kid, pubKey, gk,
                   ops, verifier, res, resp, logs, first, proc, mw>>

Step(w) ==
    \/ Request(w)
    \/ GetKeyRLock(w)
    \/ GetKeyRead(w)
    \/ RefreshWLock(w)
    \/ RefreshLock(w)
    \/ RefreshFetched(w)
    \/ RefreshInstall(w)
    \/ GetKeyRLock2(w)
    \/ GetKeyRead2(w)
    \/ VerifyRest(w)
    \/ Finish(w)
    \/ Repeat(w)

\* One request at a time.
Next == Step("g1") \/ Tick

Spec == Init /\ [][Next]_vars

(***************************************************************************)
(* Concurrent requests: every goroutine of Workers serves requests, whose   *)
(* headers are drawn from a few: none, a token of each key, a token the     *)
(* cache's keys do not verify.                                             *)
(***************************************************************************)
ConcHeaders ==
    {[scheme |-> "", cred |-> [BaseToken EXCEPT !.raw = ""]],
     [scheme |-> "Bearer ", cred |-> BaseToken],
     [scheme |-> "Bearer ", cred |-> [BaseToken EXCEPT !.kid = <<"string", "k2">>]]}

RequestConc(w) == pc[w] = "idle" /\ \E h \in ConcHeaders : Handle(w, h)

\* The provider's answers to the concurrent requests: a failure, k1 for two
\* seconds, k1 for no time at all, k2 for the default hour.
ConcResponses ==
    {r \in Responses :
        \/ r.net = "error"
        \/ /\ RefreshOutcome(r).err = "nil"
           /\ r.cc \in {<<"max-age=2">>, <<"max-age=0">>, <<>>}}

RefreshFetchedConc(w) ==
    pc[w] = "fetching" /\ \E r \in ConcResponses : RefreshDone(w, r)

StepConc(w) ==
    \/ RequestConc(w)
    \/ GetKeyRLock(w)
    \/ GetKeyRead(w)
    \/ RefreshWLock(w)
    \/ RefreshLock(w)
    \/ RefreshFetchedConc(w)
    \/ RefreshInstall(w)
    \/ GetKeyRLock2(w)
    \/ GetKeyRead2(w)
    \/ VerifyRest(w)
    \/ Finish(w)

NextConc == (\E w \in Workers : StepConc(w)) \/ Tick

SpecConc == Init /\ [][NextConc]_vars

\* The goroutine's own steps: the scheduler runs a goroutine that can run, and
\* sync.RWMutex grants a lock that is requested and released again and again.
\* The arrival of a request and the provider's answer to http.Get are the
\* environment's: http.Get is called on the default client, which has no
\* timeout, so nothing in the program ends a fetch the provider leaves open.
Fairness ==
    \A w \in Workers :
        /\ SF_vars(GetKeyRLock(w))
        /\ WF_vars(GetKeyRead(w))
        /\ SF_vars(RefreshWLock(w))
        /\ SF_vars(RefreshLock(w))
        /\ WF_vars(RefreshInstall(w))
        /\ SF_vars(GetKeyRLock2(w))
        /\ WF_vars(GetKeyRead2(w))
        /\ WF_vars(VerifyRest(w))

SpecLive == Init /\ [][NextConc]_vars /\ Fairness

(***************************************************************************)
(* Startup: main from its first line to http.ListenAndServe                *)
(***************************************************************************)
\* The environments a process starts in: os.Getenv gives "" for a variable
\* that is unset and for one that is set to the empty string.
Envs ==
    [PORT : {"", "8080"}, FIREBASE_PROJECT_ID : {"", "P1"},
     FIREBASE_API_KEY : {"", "K1"}, FIREBASE_AUTH_DOMAIN : {"", "D1"},
     FIREBASE_AUTH_EMULATOR_HOST : {"", "localhost:9099"}]

\* Mutant: the project ID is not among the variables looked for.
MissingIgnoresProject(env) ==
    SelectSeq(<<"FIREBASE_API_KEY", "FIREBASE_AUTH_DOMAIN">>,
              LAMBDA n : env[n] = "")

\* loadFirebaseConfig: missing, the names of the required variables that are
\* empty, in the order of the three tests.
Missing(env) ==
    SelectSeq(<<"FIREBASE_PROJECT_ID", "FIREBASE_API_KEY", "FIREBASE_AUTH_DOMAIN">>,
              LAMBDA n : env[n] = "")

\* slog.Error(msg, ...) followed by os.Exit(1).
Fatal(msg, names) ==
    [proc EXCEPT !.pc = "exited", !.code = 1,
                 !.errors = Append(@, [msg |-> msg, vars |-> names])]

\* The state of a process at the first line of main: firebaseConfig is the
\* zero value, no router, no listener, no request.
InitBoot ==
    /\ cfg = [ProjectID |-> "", AuthEmulatorHost |-> ""]
    /\ now = 1
    /\ keys = NoKeys
    /\ expiry = 0
    /\ readers = {}
    /\ writer = {}
    /\ pc = [w \in Workers |-> "idle"]
    /\ hdr = [w \in Workers |-> NoHeader]
    /\ kid = [w \in Workers |-> ""]
    /\ pubKey = [w \in Workers |-> NoKey]
    /\ gk = [w \in Workers |-> NoCall]
    /\ ops = [w \in Workers |-> <<>>]
    /\ verifier = [w \in Workers |-> "none"]
    /\ res = [w \in Workers |-> NoResult]
    /\ resp = [w \in Workers |-> NoResp]
    /\ logs = [w \in Workers |-> <<>>]
    /\ first = [w \in Workers |-> NoFirst]
    /\ \E e \in Envs :
          proc = [pc |-> "main", env |-> e, code |-> 0, errors |-> <<>>,
                  mux |-> FALSE, listening |-> FALSE]
    /\ mw = NoRequests

\* main: port := os.Getenv("PORT"), and the exit when it is empty.
MainPort ==
    /\ proc.pc = "main"
    /\ proc' = IF proc.env.PORT = ""
               THEN Fatal("PORT environment variable is required but not set", <<>>)
               ELSE [proc EXCEPT !.pc = "loadFirebaseConfig"]
    /\ UNCHANGED <<cfg, now, keys, expiry, readers, writer, pc, hdr, kid, pubKey,
                   gk, ops, verifier, res, resp, logs, first, mw>>

\* loadFirebaseConfig: the exit when a required variable is empty, the
\* configuration returned otherwise.
LoadFirebaseConfig ==
    /\ proc.pc = "loadFirebaseConfig"
    /\ IF Missing(proc.env) # <<>>
       THEN /\ proc' = Fatal("missing required environment variables",
                             Missing(proc.env))
            /\ UNCHANGED cfg
       ELSE /\ cfg' = [ProjectID |-> proc.env.FIREBASE_PROJECT_ID,
                       AuthEmulatorHost |-> proc.env.FIREBASE_AUTH_EMULATOR_HOST]
            /\ proc' = [proc EXCEPT !.pc = "newMux"]
    /\ UNCHANGED <<now, keys, expiry, readers, writer, pc, hdr, kid, pubKey, gk,
                   ops, verifier, res, resp, logs, first, mw>>

\* main: mux := newMux(cfg); handler := loggingMiddleware(mux)
MainNewMux ==
    /\ proc.pc = "newMux"
    /\ proc' = [proc EXCEPT !.pc = "listen", !.mux = TRUE]
    /\ UNCHANGED <<cfg, now, keys, expiry, readers, writer, pc, hdr, kid, pubKey,
                   gk, ops, verifier, res, resp, logs, first, mw>>

\* main: http.ListenAndServe(addr, handler) opens the listener and serves, or
\* returns an error, which main logs before it exits.
MainListen ==
    /\ proc.pc = "listen"
    /\ \E ok \in BOOLEAN :
          proc' = IF ok THEN [proc EXCEPT !.pc = "serving", !.listening = TRUE]
                  ELSE Fatal("server failed", <<>>)
    /\ UNCHANGED <<cfg, now, keys, expiry, readers, writer, pc, hdr, kid, pubKey,
                   gk, ops, verifier, res, resp, logs, first, mw>>

\* The server serves a request once main is inside ListenAndServe.
ServeBoot == proc.pc = "serving" /\ StepConc("g1")

NextBoot ==
    \/ MainPort
    \/ LoadFirebaseConfig
    \/ MainNewMux
    \/ MainListen
    \/ ServeBoot
    \/ Tick

SpecBoot == InitBoot /\ [][NextBoot]_vars

(***************************************************************************)
(* loggingMiddleware: the request ID.  The closure's counter is shared by   *)
(* the goroutines of all requests and is not synchronised: counter++ is a   *)
(* load and a store, and Sprintf loads it once more.                        *)
(***************************************************************************)
InFlight == {w \in Workers : mw.req[w].pc # "idle"}

\* start := time.Now(), for a request that arrives.
MwBegin(w) ==
    /\ mw.req[w].pc = "idle"
    /\ Len(mw.log) + Cardinality(InFlight) < MaxRequests
    /\ mw' = [mw EXCEPT !.req[w] = [pc |-> "load", start |-> now, tmp |-> 0,
                                     id |-> <<>>]]
    /\ UNCHANGED <<cfg, now, keys, expiry, readers, writer, pc, hdr, kid, pubKey,
                   gk, ops, verifier, res, resp, logs, first, proc>>

\* counter++: the load
MwLoad(w) ==
    /\ mw.req[w].pc = "load"
    /\ mw' = [mw EXCEPT !.req[w].tmp = mw.counter, !.req[w].pc = "store"]
    /\ UNCHANGED <<cfg, now, keys, expiry, readers, writer, pc, hdr, kid, pubKey,
                   gk, ops, verifier, res, resp, logs, first, proc>>

\* counter++: the store
MwStore(w) ==
    /\ mw.req[w].pc = "store"
    /\ mw' = [mw EXCEPT !.counter = mw.req[w].tmp + 1, !.req[w].pc = "format"]
    /\ UNCHANGED <<cfg, now, keys, expiry, readers, writer, pc, hdr, kid, pubKey,
                   gk, ops, verifier, res, resp, logs, first, proc>>

\* requestID := fmt.Sprintf("%d-%d", start.UnixNano(), counter)
MwId(w) ==
    /\ mw.req[w].pc = "format"
    /\ mw' = [mw EXCEPT !.req[w].id = <<mw.req[w].start, mw.counter>>,
                        !.req[w].pc = "serve"]
    /\ UNCHANGED <<cfg, now, keys, expiry, readers, writer, pc, hdr, kid, pubKey,
                   gk, ops, verifier, res, resp, logs, first, proc>>

\* next.ServeHTTP(rc, r) returns and slog.Info("request", "request_id", ...)
\* writes the line.
MwEnd(w) ==
    /\ mw.req[w].pc = "serve"
    /\ mw' = [mw EXCEPT !.log = Append(@, mw.req[w].id), !.req[w] = NoRequest]
    /\ UNCHANGED <<cfg, now, keys, expiry, readers, writer, pc, hdr, kid, pubKey,
                   gk, ops, verifier, res, resp, logs, first, proc>>

StepIds(w) ==
    \/ MwBegin(w)
    \/ MwLoad(w)
    \/ MwStore(w)
    \/ MwId(w)
    \/ MwEnd(w)

NextIds == (\E w \in Workers : StepIds(w)) \/ Tick

SpecIds == Init /\ [][NextIds]_vars

(***************************************************************************)
(* Properties                                                              *)
(***************************************************************************)
\* The token of goroutine w's request.
Tok(w) == hdr[w].cred

\* verifyIDToken has returned to the handler of w.
Returned(w) == pc[w] = "done" /\ verifier[w] = "verifyIDToken"

\* verifyIDToken returned an identity.
Accepted(w) == Returned(w) /\ res[w].user # {}

\* verifyIDToken returned an error of kind k.
FailsWith(w, k) == res[w].user = {} /\ res[w].err # NoErr /\ k \in Kinds(res[w].err)

Rejected(w) == res[w].user = {} /\ res[w].err # NoErr /\ resp[w] = Unauthenticated

\* The facts of a token the checks are about, at the time verifyIDToken ran.
Parsed(w) == Tok(w).raw = "jwt" /\ Tok(w).alg \in {"RS256", "HS256", "none"}
KeyResolved(w) == pubKey[w].err = NoErr /\ pubKey[w].key # {}
SignedByResolvedKey(w) == KeyResolved(w) /\ Tok(w).signer \in pubKey[w].key
ExpInPast(w) == \E e \in Tok(w).exp : e <= res[w].at
IatInFuture(w) == \E i \in Tok(w).iat : i > res[w].at
NbfInFuture(w) == \E n \in Tok(w).nbf : n > res[w].at
SubEmpty(w) == Tok(w).sub \in {{}, {""}}
IssRight(w) == Tok(w).iss = <<"https://securetoken.google.com/", cfg.ProjectID>>
AudRight(w) == cfg.ProjectID \in Tok(w).aud
StringOf(c) == IF c = {} THEN "" ELSE CHOOSE x \in c : TRUE
IdentityOf(t) ==
    [uid |-> StringOf(t.sub), email |-> StringOf(t.email),
     name |-> StringOf(t.name), picture |-> StringOf(t.picture)]

\* C1: verifyIDToken returns an identity only if the token declares RS256, has
\* a non-empty string kid, the key cache returned a key for that kid, the
\* signature verifies under that key, the token is not expired, sub is
\* non-empty, iss is the prefix followed by the project ID and the project ID is
\* among the aud values; and no run of verifyIDToken reads sub, compares iss or
\* aud, or copies a claim before the signature verification has succeeded.
C1_AcceptedOnlyIfAllChecksPass ==
    \A w \in Workers :
        /\ Accepted(w) =>
             /\ Tok(w).raw = "jwt"
             /\ Tok(w).alg = "RS256"
             /\ Tok(w).kid[1] = "string" /\ Tok(w).kid[2] # ""
             /\ kid[w] = Tok(w).kid[2]
             /\ pubKey[w].err = NoErr
             /\ kid[w] \in DOMAIN gk[w].seen
             /\ pubKey[w].key = {gk[w].seen[kid[w]]}
             /\ Tok(w).signer \in pubKey[w].key
             /\ ~ExpInPast(w)
             /\ ~SubEmpty(w)
             /\ IssRight(w)
             /\ AudRight(w)
        /\ Returned(w) =>
             \A i \in DOMAIN ops[w] :
                 ops[w][i] \in {"sub", "iss", "aud", "copy"}
                     => \E j \in 1..(i - 1) : ops[w][j] = "verified"

\* C1 witness: a request whose token verifyIDToken accepted after a lookup in
\* the key cache.
C1_Witness ==
    \E w \in Workers : Accepted(w) /\ "copy" \in {ops[w][i] : i \in DOMAIN ops[w]}

\* C2: verifyIDToken rejects every token that declares an algorithm other than
\* RS256 as UnsupportedAlgorithm, without consulting the key cache or checking
\* a signature, the unsigned token the emulator verifier accepts included; and
\* it returns no identity without having verified an RS256 signature.
C2_NonRS256Rejected ==
    \A w \in Workers :
        /\ (Returned(w) /\ Tok(w).alg # "RS256") => Rejected(w)
        /\ (Returned(w) /\ Tok(w).raw = "jwt" /\ Tok(w).alg # "RS256") =>
             /\ FailsWith(w, "UnsupportedAlgorithm")
             /\ gk[w] = NoCall
             /\ \A i \in DOMAIN ops[w] : ops[w][i] # "ParseWithClaims"
        /\ Accepted(w) =>
             /\ \E i \in DOMAIN ops[w] : ops[w][i] = "verified"
             /\ Tok(w).signer \in pubKey[w].key

\* C2 witness: production rejected an unsigned alg "none" token that
\* verifyEmulatorToken accepts.
C2_Witness ==
    \E w \in Workers :
        /\ Returned(w)
        /\ Tok(w).raw = "jwt" /\ Tok(w).alg = "none" /\ Tok(w).signer = "unsigned"
        /\ VerifyEmulatorToken(Tok(w), cfg.ProjectID).user # {}
        /\ FailsWith(w, "UnsupportedAlgorithm")

\* C3: with an empty emulator host no request is verified by
\* verifyEmulatorToken; the verifier invoked is decided by the configuration
\* alone, which never changes after construction.
C3_VerifierFixedByConfig ==
    /\ [](\A w \in Workers :
            /\ verifier[w] = "verifyEmulatorToken" => cfg.AuthEmulatorHost # ""
            /\ verifier[w] = "verifyIDToken" => cfg.AuthEmulatorHost = "")
    /\ [][cfg' = cfg]_vars

\* C3 witness: a production router answered a request that carried an unsigned
\* emulator-style token, through verifyIDToken.
C3_Witness ==
    \E w \in Workers :
        /\ cfg.AuthEmulatorHost = ""
        /\ pc[w] = "done" /\ verifier[w] = "verifyIDToken"
        /\ Tok(w).alg = "none" /\ Tok(w).raw = "jwt"

\* C4: a token signed with a key other than the one the cache returned for
\* its kid is never accepted, and verifyIDToken fails with BadSignature.
C4_WrongKeyBadSignature ==
    \A w \in Workers :
        /\ (Returned(w) /\ ~SignedByResolvedKey(w)) => Rejected(w)
        /\ (Returned(w) /\ KeyResolved(w) /\ ~SignedByResolvedKey(w))
              => FailsWith(w, "BadSignature")

\* C4 witness: an otherwise valid token signed by K2 while the cache returned
\* K1 for its kid.
C4_Witness ==
    \E w \in Workers :
        /\ Returned(w) /\ pubKey[w].key = {"K1"} /\ Tok(w).signer = "K2"
        /\ Defects(Tok(w)) = 1

\* C5: a token whose exp is in the past is never accepted, and with a valid
\* signature verifyIDToken fails with Expired.
C5_ExpiredRejected ==
    \A w \in Workers :
        /\ (Returned(w) /\ ExpInPast(w)) => Rejected(w)
        /\ (Returned(w) /\ ExpInPast(w) /\ SignedByResolvedKey(w))
              => FailsWith(w, "Expired")

\* C5 witness: a token valid but for its exp, verified after exp had passed.
C5_Witness ==
    \E w \in Workers :
        /\ Returned(w) /\ SignedByResolvedKey(w) /\ ExpInPast(w)
        /\ Defects(Tok(w)) = 1

\* C6: a token whose iss is not the prefix followed by the project ID is never
\* accepted, and when its signature, temporal claims and subject pass
\* verifyIDToken fails with BadIssuer.
C6_WrongIssuerRejected ==
    \A w \in Workers :
        /\ (Returned(w) /\ ~IssRight(w)) => Rejected(w)
        /\ (Returned(w) /\ ~IssRight(w) /\ SignedByResolvedKey(w)
              /\ ~ExpInPast(w) /\ ~IatInFuture(w) /\ ~NbfInFuture(w) /\ ~SubEmpty(w))
              => FailsWith(w, "BadIssuer")

\* C6 witness: a token of another project's issuer, with the right audience.
C6_Witness ==
    \E w \in Workers :
        /\ Returned(w) /\ SignedByResolvedKey(w)
        /\ Tok(w).iss = <<"https://securetoken.google.com/", "P2">>
        /\ AudRight(w)
        /\ FailsWith(w, "BadIssuer")

\* C7: a token whose aud values do not contain the project ID is never
\* accepted and, its iss being right, fails with BadAudience; a token with
\* several aud values one of which is the project ID passes the audience check.
C7_AudienceMembership ==
    \A w \in Workers :
        /\ (Returned(w) /\ ~AudRight(w)) => Rejected(w)
        /\ (Returned(w) /\ ~AudRight(w) /\ SignedByResolvedKey(w)
              /\ ~ExpInPast(w) /\ ~IatInFuture(w) /\ ~NbfInFuture(w) /\ ~SubEmpty(w)
              /\ IssRight(w))
              => FailsWith(w, "BadAudience")
        /\ (Returned(w) /\ AudRight(w)) => ~FailsWith(w, "BadAudience")
        /\ (Returned(w) /\ AudRight(w) /\ SignedByResolvedKey(w)
              /\ ~ExpInPast(w) /\ ~IatInFuture(w) /\ ~NbfInFuture(w) /\ ~SubEmpty(w)
              /\ IssRight(w))
              => Accepted(w)

\* C7 witness: a token with the right issuer and another project's audience.
C7_Witness ==
    \E w \in Workers :
        /\ Returned(w) /\ IssRight(w) /\ Tok(w).aud = {"P2"}
        /\ FailsWith(w, "BadAudience")

\* C8: a token with an empty sub is never accepted, and when it is otherwise
\* fully valid verifyIDToken fails with MissingSubject.
C8_EmptySubjectRejected ==
    \A w \in Workers :
        /\ (Returned(w) /\ SubEmpty(w)) => Rejected(w)
        /\ (Returned(w) /\ SubEmpty(w) /\ SignedByResolvedKey(w)
              /\ ~ExpInPast(w) /\ ~IatInFuture(w) /\ ~NbfInFuture(w))
              => FailsWith(w, "MissingSubject")

\* C8 witness: a token valid but for its sub, the empty string.
C8_Witness ==
    \E w \in Workers :
        /\ Returned(w) /\ Tok(w).sub = {""} /\ Defects(Tok(w)) = 1
        /\ SignedByResolvedKey(w) /\ IssRight(w) /\ AudRight(w)
        /\ FailsWith(w, "MissingSubject")

\* The premises of C9: the cache was unexpired and held the key the token is
\* signed with, RS256, non-empty sub, matching iss, aud with the project ID,
\* exp in the future and iat in the past.
C9_Premises(w) ==
    /\ Returned(w)
    /\ gk[w].found = "unexpired"
    /\ Tok(w).kid[2] \in DOMAIN gk[w].seen
    /\ Tok(w).signer = gk[w].seen[Tok(w).kid[2]]
    /\ Tok(w).alg = "RS256"
    /\ ~SubEmpty(w)
    /\ IssRight(w)
    /\ AudRight(w)
    /\ Tok(w).exp # {} /\ ~ExpInPast(w)
    /\ Tok(w).iat # {} /\ ~IatInFuture(w)

C9_Conclusion(w) ==
    /\ res[w].err = NoErr
    /\ res[w].user = {IdentityOf(Tok(w))}
    /\ resp[w] = [status |-> 200, body |-> IdentityOf(Tok(w))]

\* C9 as stated: every such token is accepted with uid = sub, email, name and
\* picture ("" when absent), and GET /api/me answers 200 with those values.
C9_Original == \A w \in Workers : C9_Premises(w) => C9_Conclusion(w)

\* C9 as amended: every such token that carries no nbf claim, or one that is
\* not in the future, is accepted with uid = sub, email, name and picture
\* ("" when absent), and GET /api/me answers 200 with those values.
C9_ValidTokenAccepted ==
    \A w \in Workers : (C9_Premises(w) /\ ~NbfInFuture(w)) => C9_Conclusion(w)

\* C9 witness: a valid token without a picture claim, answered 200 with the
\* empty string as picture.
C9_Witness ==
    \E w \in Workers :
        /\ C9_Premises(w) /\ ~NbfInFuture(w)
        /\ Tok(w).picture = {}
        /\ resp[w].status = 200 /\ resp[w].body.picture = ""

\* C10: a getKey call that finds the cache unexpired performs no fetch, does
\* not write the cache and never enters refresh; it returns the cached key
\* when kid is in the key map and the not-found error when it is not.
C10_UnexpiredReadOnly ==
    \A w \in Workers :
        gk[w].found = "unexpired" =>
            /\ pc[w] \in {"verify", "done"}
            /\ gk[w].fetches = 0
            /\ gk[w].writes = 0
            /\ pubKey[w] =
                 IF kid[w] \in DOMAIN gk[w].seen
                 THEN [key |-> {gk[w].seen[kid[w]]}, err |-> NoErr]
                 ELSE [key |-> {}, err |-> Err("not found in cache", {})]

\* C10 witness: a kid the unexpired cache does not hold, answered not found.
C10_Witness ==
    \E w \in Workers :
        /\ pc[w] = "done" /\ gk[w].found = "unexpired"
        /\ gk[w].seen # NoKeys
        /\ kid[w] \notin DOMAIN gk[w].seen
        /\ FailsWith(w, "UnknownKey")

\* getKey of w has been through refresh and is back from it.
PastRefresh(w) ==
    pc[w] \in {"getKey2", "read2", "verify", "done"} /\ gk[w].recheck # "none"

\* The getKey calls of w and v found the cache expired and stood before the
\* refresh lock at the same time, neither holding it yet.
Raced(w, v) == w # v /\ v \in gk[w].rivals /\ w \in gk[v].rivals

\* C11 as stated: callers that hit an expired cache simultaneously issue
\* exactly one outbound fetch between them.
C11_Original ==
    \A w, v \in Workers :
        Raced(w, v) /\ PastRefresh(w) /\ PastRefresh(v) =>
            gk[w].fetches + gk[v].fetches = 1

\* C11: of two callers that hit an expired cache simultaneously, the first to
\* take the refresh lock fetches; the second re-checks the expiry under the
\* lock and does not fetch when the first refresh succeeded and the expiry it
\* installed is still in the future, and fetches again, in its turn, when the
\* first fetch failed or the installed expiry is not in the future.
C11_OneFetchAfterSuccessfulRefresh ==
    \A w, v \in Workers :
        /\ Raced(w, v) /\ PastRefresh(w) /\ PastRefresh(v)
        /\ gk[v].order = 1 /\ gk[w].order = 2
        => /\ gk[v].fetches = 1
           /\ gk[v].recheck = "expired"
           /\ (gk[v].writes = 1 /\ gk[w].lockedAt < gk[v].installed
                 => gk[w].fetches = 0 /\ gk[w].recheck = "unexpired")
           /\ (gk[v].writes = 0 \/ gk[w].lockedAt >= gk[v].installed
                 => gk[w].fetches = 1 /\ gk[w].recheck = "expired")

\* C11 witness: two callers raced into the expired cache, the first fetched
\* and installed the keys, the second found the cache unexpired under the lock
\* and returned the key without a fetch.
C11_Witness ==
    \E w, v \in Workers :
        /\ Raced(w, v) /\ pc[w] = "done" /\ pc[v] = "done"
        /\ gk[v].order = 1 /\ gk[v].fetches = 1 /\ gk[v].writes = 1
        /\ gk[w].order = 2 /\ gk[w].fetches = 0 /\ gk[w].recheck = "unexpired"
        /\ Accepted(w) /\ Accepted(v)

\* C12: at every moment at most one goroutine is inside refresh between
\* http.Get and the return, and it holds the cache's write lock.
C12_OneFetchInFlight ==
    LET inFlight == {w \in Workers : pc[w] \in {"fetching", "install"}} IN
    /\ Cardinality(inFlight) <= 1
    /\ inFlight = writer

\* C12 witness: one caller's fetch is in flight while another, which found the
\* cache expired too, waits for the refresh lock.
C12_Witness ==
    \E w, v \in Workers :
        /\ pc[w] = "fetching" /\ pc[v] = "refresh"
        /\ gk[v].found = "expired" /\ Raced(w, v)

\* refresh of w ends in this step without having assigned the key map: the
\* fetch or the handling of its response failed.
RefreshFails(w) == pc[w] = "fetching" /\ pc'[w] \notin {"fetching", "install"}

\* C13: a refresh that fails leaves the key map and the expiry as they were,
\* the cache still expired; the getKey that triggered it returns the fetch
\* error and no key, whatever the map holds, and verifyIDToken fails with
\* KeyUnavailable; a getKey that finds the cache expired goes to refresh, and
\* a refresh that finds it expired under the lock sends the fetch.
C13_FailedRefreshKeepsCache ==
    /\ [][\A w \in Workers :
            /\ RefreshFails(w) =>
                  /\ pc'[w] = "verify"
                  /\ keys' = keys /\ expiry' = expiry /\ ~Unexpired'
                  /\ pubKey'[w].key = {}
                  /\ Kinds(pubKey'[w].err) = {"KeyUnavailable"}
                  /\ \E r \in Responses :
                        pubKey'[w].err.flags = {RefreshOutcome(r).err}
            /\ pc[w] = "read" /\ pc'[w] # "read" /\ ~Unexpired => pc'[w] = "refresh"
            /\ pc[w] = "refresh" /\ pc'[w] # "refresh" => pc'[w] = "locking"
            /\ pc[w] = "locking" /\ pc'[w] # "locking" /\ ~Unexpired
                  => pc'[w] = "fetching" /\ gk'[w].fetches = gk[w].fetches + 1]_vars
    /\ [](\A w \in Workers :
            pc[w] = "done" /\ pubKey[w].err.site = "failed to refresh public keys"
                => /\ res[w].user = {} /\ Kinds(res[w].err) = {"KeyUnavailable"}
                   /\ resp[w] = Unauthenticated
                   /\ gk[w].writes = 0)

\* C13 witness: the cache holds the token's kid from an earlier refresh and has
\* expired; the fetch failed on an entry that is not PEM, and the request is
\* rejected although the map still has the key.
C13_Witness ==
    \E w \in Workers :
        /\ pc[w] = "done" /\ FailsWith(w, "KeyUnavailable")
        /\ pubKey[w].err.flags = {"failed to decode PEM"}
        /\ kid[w] \in DOMAIN keys /\ keys = gk[w].seen
        /\ Tok(w) = BaseToken /\ ~Unexpired

\* The key map of a response refresh accepts.
KeysOf(r) == [k \in DOMAIN r.certs |-> r.certs[k].key]

\* C14: between the assignment of the key map and the assignment of the
\* expiry the map is exactly the keys of the response received, the refreshing
\* goroutine holds the write lock and no getKey holds the read lock; a read
\* lock is never held together with the write lock; after its refresh a getKey
\* answers from the map alone, not found when the map lacks kid.
C14_WholeMapReplaced ==
    /\ \A w \in Workers :
          pc[w] = "install" =>
              /\ \E r \in Responses :
                    /\ RefreshOutcome(r).err = "nil"
                    /\ r.cc = gk[w].cc
                    /\ keys = KeysOf(r)
              /\ writer = {w} /\ readers = {}
              /\ \A v \in Workers : pc[v] \notin {"read", "read2"}
    /\ (readers # {} => writer = {})
    /\ readers = {w \in Workers : pc[w] \in {"read", "read2"}}
    /\ \A w \in Workers :
          pc[w] \in {"verify", "done"} /\ gk[w].recheck # "none"
          /\ pubKey[w].err.site # "failed to refresh public keys"
          => /\ \E r \in Responses :
                   RefreshOutcome(r).err = "nil" /\ gk[w].seen = KeysOf(r)
             /\ pubKey[w] =
                  IF kid[w] \in DOMAIN gk[w].seen
                  THEN [key |-> {gk[w].seen[kid[w]]}, err |-> NoErr]
                  ELSE [key |-> {}, err |-> Err("not found after refresh", {})]

\* C14 witness: one request was accepted with k1 from the cache; the cache
\* expired and another request's refresh received k2 alone; that request, for
\* k1, is answered not found.
C14_Witness ==
    \E w, v \in Workers :
        /\ Accepted(v) /\ kid[v] = "k1" /\ "k1" \in DOMAIN gk[v].seen
        /\ pc[w] = "done" /\ kid[w] = "k1" /\ gk[w].writes = 1
        /\ keys = KeysOf(Response("ok", 200, TRUE, CertMap2, <<>>))
        /\ gk[w].seen = keys
        /\ FailsWith(w, "UnknownKey")

\* The max-age the design gives a Cache-Control header: the integer of its
\* max-age directive, 3600 when no directive carries an integer.
MaxAgeClaimed(cc) ==
    LET found == UNION {MaxAgeOf(cc[i]) : i \in DOMAIN cc} IN
    IF found = {} THEN 3600 ELSE CHOOSE n \in found : TRUE

InVerifyIDToken(w) ==
    pc[w] \in {"getKey", "read", "refresh", "locking", "fetching", "install", "getKey2",
               "read2", "verify"}

\* C16: every verifyIDToken call that has begun returns.
C16_EveryCallReturns ==
    \A w \in Workers : InVerifyIDToken(w) ~> pc[w] = "done"

\* The request of w carries no bearer token: no Authorization header, another
\* scheme, or nothing after "Bearer ".
NoBearerToken(w) == hdr[w].scheme # "Bearer " \/ hdr[w].cred.raw = ""

\* C17: a request without a bearer token is answered 401 UNAUTHENTICATED and
\* neither verifier is invoked for it.
C17_NoTokenNoVerifier ==
    \A w \in Workers :
        pc[w] = "done" /\ NoBearerToken(w) =>
            /\ resp[w] = Unauthenticated
            /\ verifier[w] = "none"
            /\ gk[w] = NoCall

\* C18: every request that fails authentication, in either mode and whatever
\* the verifier's error, is answered with status 401 and the one fixed body;
\* only a request whose verifier returned a user is answered otherwise.
C18_UniformFailureResponse ==
    \A w \in Workers :
        pc[w] = "done" =>
            IF res[w].user = {}
            THEN /\ resp[w].status = 401
                 /\ resp[w].body =
                      [error |-> [code |-> "UNAUTHENTICATED",
                                  message |-> "Missing or invalid authentication token"]]
            ELSE resp[w].status = 200 /\ res[w].err = NoErr

\* C18 witness: a token for another project's audience, rejected by the
\* production verifier with the fixed 401.
C18_Witness ==
    \E w \in Workers :
        /\ pc[w] = "done" /\ FailsWith(w, "BadAudience")
        /\ resp[w].status = 401
        /\ resp[w].body.error.code = "UNAUTHENTICATED"

\* C19: when the token of an accepted request is verified again, and getKey
\* finds the cache unexpired and the token has not expired, the identity is
\* the one returned before, no fetch is sent, and key map and expiry are what
\* they were between the two calls.
C19_RepeatIsIdempotent ==
    \A w \in Workers :
        /\ first[w].set /\ Returned(w)
        /\ gk[w].found = "unexpired" /\ ~ExpInPast(w)
        => /\ hdr[w] = first[w].hdr
           /\ res[w].user = first[w].user /\ res[w].err = NoErr
           /\ gk[w].fetches = 0 /\ gk[w].writes = 0
           /\ keys = first[w].keys /\ expiry = first[w].expiry

\* C19 witness: the second verification of a token, at a later time than the
\* first, answered from the unexpired cache.
C19_Witness ==
    \E w \in Workers :
        /\ first[w].set /\ Accepted(w) /\ gk[w].found = "unexpired"
        /\ res[w].at > 1 /\ res[w].user = first[w].user

\* C20: no log entry of a request quotes the bearer token or the
\* Authorization header: not the handler's warning, not the request line.
C20_TokenNeverLogged ==
    \A w \in Workers : \A i \in DOMAIN logs[w] :
        /\ DOMAIN logs[w][i].args \cap {"tokenString", "authHeader"} = {}
        /\ DOMAIN logs[w][i].args \subseteq
             IF logs[w][i].level = "WARN"
             THEN {"token.Method.Alg()", "kid", "claims.Issuer", "claims.Audience"}
             ELSE {"r.Method", "r.URL.Path"}

\* C20 witness: a rejected request has its warning, which quotes the kid the
\* cache lacks, and its request line with the 401.
C20_Witness ==
    \E w \in Workers :
        /\ pc[w] = "done" /\ Len(logs[w]) = 2
        /\ logs[w][1].level = "WARN" /\ "kid" \in DOMAIN logs[w][1].args
        /\ logs[w][1].args["kid"] = "k2"
        /\ logs[w][2].msg = "request" /\ logs[w][2].status = 401

\* verifyEmulatorToken has returned to the handler of w.
EmuReturned(w) == pc[w] = "done" /\ verifier[w] = "verifyEmulatorToken"

\* C22: verifyEmulatorToken's outcome is decided by whether the token parses
\* and whether its sub is non-empty: a token that parses with a non-empty sub
\* is accepted with the identity (sub, email, name, picture) whatever its
\* signature, issuer, audience and expiry; one that parses with an empty or
\* absent sub is rejected as MissingSubject; one that does not parse is
\* rejected; and the key cache is not consulted: no getKey call, no key
\* resolved, the cache as keyCache was built.
C22_EmulatorOutcome ==
    \A w \in Workers :
        /\ EmuReturned(w) =>
             /\ gk[w] = NoCall /\ pubKey[w] = NoKey
             /\ \A i \in DOMAIN ops[w] : ops[w][i] # "getKey"
             /\ Parsed(w) /\ ~SubEmpty(w)
                   => res[w].user = {IdentityOf(Tok(w))} /\ res[w].err = NoErr
             /\ Parsed(w) /\ SubEmpty(w) => FailsWith(w, "MissingSubject")
             /\ ~Parsed(w) => res[w].user = {} /\ res[w].err # NoErr
        /\ cfg.AuthEmulatorHost # "" => keys = NoKeys /\ expiry = 0

\* C22 witness: the emulator verifier accepted an expired token of another
\* project's issuer, or one whose signature is not K1's.
C22_Witness ==
    \E w \in Workers :
        /\ EmuReturned(w) /\ res[w].user # {}
        /\ \/ ExpInPast(w) /\ ~IssRight(w)
           \/ Tok(w).signer # "K1" /\ ~AudRight(w)

\* C23: verifyEmulatorToken returns an identity only for a token whose header
\* declares "none" or RS256.
C23_EmulatorAlgorithms ==
    \A w \in Workers :
        EmuReturned(w) /\ res[w].user # {} => Tok(w).alg \in {"none", "RS256"}

\* C24: verifyIDToken returns an identity only for a token that carries an exp
\* later than the time of verification and no iat later than it.
C24_AcceptedOnlyWithFutureExp ==
    \A w \in Workers :
        Accepted(w) =>
            /\ \E e \in Tok(w).exp : e > res[w].at
            /\ ~IatInFuture(w)

\* The kinds of failure of the earliest step of verifyIDToken's order that the
\* token of w fails: parse, algorithm, kid, key resolution, signature and
\* temporal claims, subject, issuer, audience; {} when it fails none.
EarliestFailure(w) ==
    IF Tok(w).raw # "jwt" THEN {"Malformed"}
    ELSE IF Tok(w).alg # "RS256" THEN {"UnsupportedAlgorithm"}
    ELSE IF Tok(w).kid[1] # "string" \/ Tok(w).kid[2] = "" THEN {"MissingKeyID"}
    ELSE IF pubKey[w].err # NoErr
    THEN Kinds(pubKey[w].err) \cap {"UnknownKey", "KeyUnavailable"}
    ELSE IF ~SignedByResolvedKey(w) THEN {"BadSignature"}
    ELSE IF ExpInPast(w) \/ IatInFuture(w) \/ NbfInFuture(w)
    THEN {k \in {"Expired"} : ExpInPast(w)}
         \cup {k \in {"NotYetValid"} : IatInFuture(w) \/ NbfInFuture(w)}
    ELSE IF SubEmpty(w) THEN {"MissingSubject"}
    ELSE IF ~IssRight(w) THEN {"BadIssuer"}
    ELSE IF ~AudRight(w) THEN {"BadAudience"}
    ELSE {}

\* C25: verifyIDToken fails with the kind of the earliest step the token
\* fails, in the order parse, algorithm, kid, key resolution, signature and
\* temporal claims, subject, issuer, audience, and accepts the token only when
\* it fails none; a failure of the key resolution is UnknownKey or
\* KeyUnavailable.
C25_EarliestFailureReported ==
    \A w \in Workers :
        Returned(w) =>
            /\ Kinds(res[w].err) = EarliestFailure(w)
            /\ Accepted(w) <=> EarliestFailure(w) = {}
            /\ pubKey[w].err # NoErr
                  => Kinds(res[w].err) \in {{"UnknownKey"}, {"KeyUnavailable"}}

\* C25 witness: a token with another project's issuer and audience, its
\* signature verified, failed as BadIssuer; or an expired token with a kid the
\* cache does not hold failed as UnknownKey.
C25_Witness ==
    \E w \in Workers :
        /\ Returned(w)
        /\ \/ SignedByResolvedKey(w) /\ ~IssRight(w) /\ ~AudRight(w)
              /\ FailsWith(w, "BadIssuer")
           \/ ExpInPast(w) /\ FailsWith(w, "UnknownKey")
\* getKey has returned to verifyIDToken in w.
GetKeyReturned(w) == pc[w] \in {"verify", "done"} /\ gk[w].found # "none"

\* What a lookup of kid k in the key set m returns: the key, or NotFound.
KeyOrNotFound(w, m) ==
    IF kid[w] \in DOMAIN m
    THEN pubKey[w] = [key |-> {m[kid[w]]}, err |-> NoErr]
    ELSE pubKey[w].key = {} /\ Kinds(pubKey[w].err) = {"UnknownKey"}

\* C26 as stated: a getKey call that found the cache expired calls refresh at
\* most once, sends at most one fetch, and returns the result of exactly one
\* lookup: the key, or NotFound.
C26_Original ==
    \A w \in Workers :
        /\ gk[w].refreshes <= 1 /\ gk[w].fetches <= 1
        /\ GetKeyReturned(w) /\ gk[w].found = "expired"
              => gk[w].lookups = 1 /\ KeyOrNotFound(w, gk[w].seen)

\* C26: a getKey call that found the cache expired calls refresh once and no
\* more, and sends at most one fetch; when the refresh fails it returns the
\* fetch error without a lookup; otherwise it returns the result of exactly
\* one lookup in the key set as it is after the refresh: the key, or NotFound.
C26_OneRefreshOneLookup ==
    \A w \in Workers :
        /\ gk[w].refreshes <= 1 /\ gk[w].fetches <= 1 /\ gk[w].lookups <= 1
        /\ GetKeyReturned(w) /\ gk[w].found = "expired"
              => /\ gk[w].refreshes = 1
                 /\ IF "KeyUnavailable" \in Kinds(pubKey[w].err)
                    THEN gk[w].lookups = 0 /\ gk[w].fetches = 1 /\ gk[w].writes = 0
                         /\ pubKey[w].key = {}
                    ELSE gk[w].lookups = 1 /\ KeyOrNotFound(w, gk[w].seen)
                         /\ (gk[w].fetches = 1 => gk[w].writes = 1)

\* C26 witness: a getKey call found the cache expired, fetched a key set that
\* lacks its kid, and returned NotFound after its one lookup.
C26_Witness ==
    \E w \in Workers :
        /\ GetKeyReturned(w) /\ gk[w].found = "expired"
        /\ gk[w].fetches = 1 /\ gk[w].writes = 1 /\ gk[w].lookups = 1
        /\ kid[w] \notin DOMAIN gk[w].seen
        /\ "UnknownKey" \in Kinds(pubKey[w].err)

\* C27: verifyIDToken calls getKey only for a token that parsed, declares RS256
\* and has a non-empty string kid; a token it rejects as malformed, for its
\* algorithm or for its kid caused no lookup and no fetch, the cache expired
\* or not; and when getKey returned an error, verifyIDToken fails as UnknownKey
\* or KeyUnavailable without a call of ParseWithClaims.
C27_CacheOnlyAfterHeaderChecks ==
    \A w \in Workers :
        /\ gk[w] # NoCall \/ pubKey[w] # NoKey \/ InVerifyIDToken(w)
              => /\ Tok(w).raw = "jwt" /\ Tok(w).alg = "RS256"
                 /\ Tok(w).kid[1] = "string" /\ Tok(w).kid[2] # ""
                 /\ kid[w] = Tok(w).kid[2]
        /\ Returned(w) /\ Kinds(res[w].err) \cap {"Malformed", "UnsupportedAlgorithm",
                                                  "MissingKeyID"} # {}
              => gk[w] = NoCall /\ pubKey[w] = NoKey
        /\ Returned(w) /\ pubKey[w].err # NoErr
              => /\ res[w].user = {}
                 /\ Kinds(res[w].err) \in {{"UnknownKey"}, {"KeyUnavailable"}}
                 /\ \A i \in DOMAIN ops[w] : ops[w][i] # "ParseWithClaims"

\* C27 witness: with the cache expired, a token with an empty kid was rejected
\* as MissingKeyID and getKey was not called.
C27_Witness ==
    \E w \in Workers :
        /\ Returned(w) /\ ~Unexpired /\ gk[w] = NoCall
        /\ Tok(w).kid = <<"string", "">>
        /\ FailsWith(w, "MissingKeyID")
\* Of C29, what holds of every state: after the refresh of w's getKey call
\* installed a key set with max-age m, the cache is unexpired until m seconds
\* have passed when m > 0, and expired at once when m <= 0; in that case the
\* getKey call that triggered the refresh still returns the result of its one
\* lookup in the set installed.
C29_AfterInstall ==
    \A w \in Workers :
        gk[w].writes = 1 /\ PastRefresh(w) =>
            /\ gk[w].maxAge > 0 /\ now < gk[w].at + gk[w].maxAge => Unexpired
            /\ gk[w].maxAge <= 0 => ~Unexpired
            /\ gk[w].maxAge <= 0 /\ GetKeyReturned(w)
                  => gk[w].lookups = 1 /\ gk[w].seen = keys /\ KeyOrNotFound(w, keys)

\* Of C29, what holds of every step: the expiry changes only when a refresh
\* installs now + max-age; a fetch is sent only while the cache is expired;
\* and a getKey call that finds the cache expired goes to refresh, which,
\* finding it expired still, sends a fetch.
C29_Steps ==
    \A w \in Workers :
        /\ expiry' # expiry =>
              \E v \in Workers : /\ pc[v] = "install" /\ pc'[v] = "getKey2"
                                  /\ expiry' = now + gk[v].maxAge
        /\ pc[w] # "fetching" /\ pc'[w] = "fetching" => ~Unexpired
        /\ pc[w] = "read" /\ pc'[w] # "read" /\ ~Unexpired => pc'[w] = "refresh"
        /\ pc[w] = "refresh" /\ pc'[w] # "refresh" => pc'[w] = "locking"
        /\ pc[w] = "locking" /\ pc'[w] # "locking" /\ ~Unexpired
              => pc'[w] = "fetching" /\ gk'[w].fetches = gk[w].fetches + 1

RefreshInProgress == \E v \in Workers : pc[v] \in {"locking", "fetching", "install"}

\* C30: while the cache is unexpired and no refresh is in progress, a getKey
\* call at its RLock gets the read lock, and one in the read section leaves
\* it, whoever else holds the read lock; the holders of the read lock are the
\* callers in a read section; the write lock is held by one goroutine at most,
\* inside refresh, while no read lock is held; and a goroutine that is about
\* to call refresh, or is inside it, holds no read lock.
C30_ReadersShareWritersExclude ==
    /\ \A w \in Workers :
          /\ Unexpired /\ ~RefreshInProgress /\ pc[w] = "getKey"
                => ENABLED GetKeyRLock(w)
          /\ Unexpired /\ ~RefreshInProgress /\ pc[w] = "read"
                => ENABLED GetKeyRead(w)
          /\ pc[w] \in {"refresh", "locking", "fetching", "install"}
                => w \notin readers
    /\ readers = {w \in Workers : pc[w] \in {"read", "read2"}}
    /\ writer = {w \in Workers : pc[w] \in {"fetching", "install"}}
    /\ Cardinality(writer) <= 1
    /\ writer # {} => readers = {}

\* C30 witness: the cache unexpired, two getKey calls are in the read section
\* at the same time.
C30_Witness ==
    /\ Unexpired
    /\ \E w, v \in Workers : w # v /\ pc[w] = "read" /\ pc[v] = "read"
                              /\ {w, v} \subseteq readers
Required == {"FIREBASE_PROJECT_ID", "FIREBASE_API_KEY", "FIREBASE_AUTH_DOMAIN"}
Unset(env) == {n \in Required : env[n] = ""}

\* C21: a process started with FIREBASE_PROJECT_ID, or another required
\* variable, unset or empty never gets past loadFirebaseConfig: it builds no
\* router, opens no listener and serves no request; and once it has exited it
\* has exited with status 1 after logging an error, which names the variables
\* that are missing when PORT is set.
C21_NoServingWithoutConfig ==
    /\ Unset(proc.env) # {} =>
          /\ proc.pc \in {"main", "loadFirebaseConfig", "exited"}
          /\ ~proc.mux /\ ~proc.listening
          /\ \A w \in Workers : pc[w] = "idle"
          /\ proc.pc = "exited" =>
                /\ proc.code = 1
                /\ Len(proc.errors) = 1
                /\ proc.env.PORT # "" =>
                      {proc.errors[1].vars[i] : i \in DOMAIN proc.errors[1].vars}
                          = Unset(proc.env)
    /\ proc.listening => proc.mux /\ cfg.ProjectID = proc.env.FIREBASE_PROJECT_ID
    /\ (\E w \in Workers : pc[w] # "idle") => proc.listening

\* C21 witness: PORT set and FIREBASE_PROJECT_ID empty, alone of the required
\* variables: the process has exited with status 1.
C21_Witness ==
    /\ proc.pc = "exited" /\ proc.code = 1
    /\ proc.env.PORT # ""
    /\ Unset(proc.env) = {"FIREBASE_PROJECT_ID"}

\* C28: no two requests that passed through loggingMiddleware were logged with
\* the same request_id.
C28_RequestIdsUnique ==
    \A i, j \in DOMAIN mw.log : i # j => mw.log[i] # mw.log[j]
====
